---- MODULE Spec2Model ----
(***************************************************************************)
(* Lead pipeline of the BlackKeyX backend: the intake endpoint              *)
(* (routers/leads.py), the stage-update endpoint (routers/admin.py), the    *)
(* lead repository (db/repositories/investor_repo.py), the intake service   *)
(* (services/lead_processor.py) and the per-request transaction of          *)
(* db/session.py.                                                           *)
(*                                                                          *)
(* Every request runs in its own session (get_db): its writes are flushed   *)
(* into a private transaction and become visible to other requests only at  *)
(* commit (PostgreSQL READ COMMITTED).  A request suspends at every store   *)
(* operation, so the steps of concurrent requests interleave there.         *)
(*                                                                          *)
(* Optional values are modelled as sequences: None is <<>>, a present value *)
(* x is <<x>>.                                                              *)
(*                                                                          *)
(* The read side of the admin API (lead list, lead detail, stats), the      *)
(* capital parsers, the deals router with db/repositories/property_repo.py  *)
(* and the deletes of db/repositories/base.py are checked in specifications *)
(* of their own (SpecAdmin, SpecStats, SpecPure, SpecDeals, SpecRepo),      *)
(* whose initial states are tables the handlers above can have built.       *)
(* Writes that name an unknown lead (SpecWrites) and                        *)
(* create_with_features with its outcome (SpecFeatures) have theirs too.    *)
(***************************************************************************)
EXTENDS Integers, Sequences, FiniteSets, TLC

\* ---------------------------------------------------------------- bounds
\* uuid4 values available, concurrent request slots, requests issued in a run.
MaxLeads == 2
MaxReq == 2
MaxRequests == 3

\* ------------------------------------------------------------ optionals
None == <<>>
Some(x) == <<x>>
IsSome(o) == o # <<>>
Get(o) == o[1]

\* ------------------------------------------------------- program constants
VALID_STAGES ==
    {"new_lead", "call_dispatched", "call_completed", "insights_extracted",
     "deals_matched", "under_review", "closed"}

capital_map ==
    [c \in {"$100K-$250K", "$250K-$500K", "$500K-$1M", "$1M+"} |->
        CASE c = "$100K-$250K" -> 175000
          [] c = "$250K-$500K" -> 375000
          [] c = "$500K-$1M" -> 750000
          [] c = "$1M+" -> 1500000]

\* ------------------------------------------------------------ input sets
Req == 1..MaxReq
LeadIds == 1..MaxLeads
Phones == {"+15550000001", "+15550000002"}

\* Strings of the input universe that start with "other:".
OtherPrefixed == {"other:crypto"}

QualA ==
    [investorType |-> "hnw", capacity |-> "$250K-$500K", fit |-> "high_priority",
     process |-> "toe_in", timing |-> "actively_deploying", score |-> 80,
     bucket |-> "active_intro"]

QualB ==
    [investorType |-> "family_office", capacity |-> "other:crypto",
     fit |-> "not_a_focus", process |-> "full_commitment",
     timing |-> "just_researching", score |-> 15, bucket |-> "not_qualified"]

\* LeadSubmissionRequest payloads.
Submissions ==
    [phoneNumber : Phones,
     consent : BOOLEAN,
     qualification : {None, Some(QualA), Some(QualB)},
     investmentTimeline : {None},
     capitalAvailable : {None, Some("$1M+")},
     investmentPreferences : {None}]

\* StageUpdateRequest payloads: every valid stage and two values outside the
\* set, without notes, and one request that carries notes.
StageRequests ==
    [stage : VALID_STAGES \cup {"archived", ""}, notes : {None}]
        \cup {[stage |-> "under_review", notes |-> Some("follow up")]}

\* The payloads used where requests run concurrently.
ConcurrentSubmissions ==
    {d \in Submissions :
        d.qualification = None /\ d.capitalAvailable = None}

ConcurrentStageRequests ==
    {sd \in StageRequests :
        sd.stage \in {"call_dispatched", "closed", "archived"} /\ sd.notes = None}

\* ------------------------------------------------------- pure functions
\* str.startswith("other:")
startswith_other(s) == Len(s) >= 6 /\ SubSeq(s, 1, 6) = "other:"

\* parse_capital returning the lower end of the bracket instead of the table value.
parse_capital_lower_end(capital_str) ==
    IF capital_str = Some("$100K-$250K") THEN Some(100000) ELSE None

parse_capital(capital_str) ==
    IF capital_str = None \/ capital_str = Some("") THEN None
    ELSE IF startswith_other(Get(capital_str)) THEN None
    ELSE IF Get(capital_str) \in DOMAIN capital_map
         THEN Some(capital_map[Get(capital_str)])
         ELSE None

parse_capital_to_int(capital_str) ==
    IF capital_str = None \/ capital_str = Some("") THEN None
    ELSE IF startswith_other(Get(capital_str)) THEN None
    ELSE IF Get(capital_str) \in DOMAIN capital_map
         THEN Some(capital_map[Get(capital_str)])
         ELSE None

\* ----------------------------------------------------------------- state
VARIABLES
    leads,          \* committed investor_profiles rows (a set; id is the key)
    consents,       \* committed consents rows, in insertion order
    stage_history,  \* committed stage_history rows, in insertion order
    pc,             \* position of each request slot in its handler
    local,          \* the handler's local variables
    tx,             \* the session's flushed / pending, uncommitted writes
    resp,           \* the response sent last
    nextId,         \* source of fresh uuid4 values
    issued,         \* number of requests issued so far
    intakeLog,      \* per phone: leadId results of completed consented intakes
    okUpdates       \* per lead id: number of successful stage-update requests

VARIABLES
    lead_notes,         \* committed lead_notes rows
    call_sessions,      \* committed call_sessions rows
    deal_matches,       \* committed deal_matches rows
    properties,         \* committed properties rows (a set; id is the key)
    property_features,  \* committed property_features rows
    property_documents, \* committed property_documents rows
    nextRow,            \* source of fresh uuid4 values for the rows above
    view                \* what the read-only call made last returned

\* The tables and results the intake and stage-update handlers never touch.
adminVars ==
    <<lead_notes, call_sessions, deal_matches, properties, property_features,
      property_documents, nextRow, view>>

vars ==
    <<leads, consents, stage_history, pc, local, tx, resp, nextId, issued,
      intakeLog, okUpdates, lead_notes, call_sessions, deal_matches, properties,
      property_features, property_documents, nextRow, view>>

\* The variables of the intake and stage-update handlers.
requestVars ==
    <<leads, consents, stage_history, pc, local, tx, resp, nextId, issued,
      intakeLog, okUpdates>>

\* The tables behind the notes, calls, matches and deals.
tableVars ==
    <<lead_notes, call_sessions, deal_matches, properties, property_features,
      property_documents, nextRow>>

NoView == [op |-> "none"]

EmptyTx ==
    [ins_leads |-> <<>>, ins_consents |-> <<>>, ins_history |-> <<>>,
     upd_stage |-> <<>>]

NoLocal == [op |-> "none"]
NoResp == [status |-> 0, detail |-> "", leadId |-> None]

Init ==
    /\ leads = {}
    /\ consents = <<>>
    /\ stage_history = <<>>
    /\ pc = [r \in Req |-> "idle"]
    /\ local = [r \in Req |-> NoLocal]
    /\ tx = [r \in Req |-> EmptyTx]
    /\ resp = NoResp
    /\ nextId = 1
    /\ issued = 0
    /\ intakeLog = [p \in Phones |-> <<>>]
    /\ okUpdates = [i \in LeadIds |-> 0]
    /\ lead_notes = {}
    /\ call_sessions = {}
    /\ deal_matches = {}
    /\ properties = {}
    /\ property_features = {}
    /\ property_documents = {}
    /\ nextRow = 1
    /\ view = NoView

\* ------------------------------------------------------------ the store
\* Result.scalar_one_or_none(): no row -> None, one row -> that row,
\* several rows -> MultipleResultsFound is raised.
scalar_one_or_none(rows) ==
    IF Cardinality(rows) > 1 THEN [raised |-> TRUE, value |-> None]
    ELSE IF rows = {} THEN [raised |-> FALSE, value |-> None]
    ELSE [raised |-> FALSE, value |-> Some(CHOOSE x \in rows : TRUE)]

\* A lookup that matches nothing (the wrong column compared).
get_by_phone_no_match(phone) == scalar_one_or_none({})

\* SELECT ... WHERE phone = :phone over the committed rows.
get_by_phone(phone) == scalar_one_or_none({l \in leads : l.phone = phone})

\* SELECT ... WHERE id = :id over the committed rows.
get(id) == scalar_one_or_none({l \in leads : l.id = id})

\* A unique index on phone: the INSERT is rejected when the phone is present.
phone_insert_unique(row, rows) == \A l \in rows : l.phone # row.phone

\* investor_profiles.phone carries a plain index and no unique constraint:
\* the INSERT of a row is accepted whatever phones the table holds.
phone_insert_accepted(row, rows) == TRUE

\* The rows a transaction leaves in the store when it commits: all of them.
commit(t) == t

\* An exception path that commits what was flushed instead of discarding it.
rollback_keeps_flushed(t) == t

\* The rows a transaction leaves in the store when it is rolled back: none.
rollback(t) == EmptyTx

StageOf(l, upd) ==
    LET hits == {i \in 1..Len(upd) : upd[i].id = l.id}
    IN IF hits = {} THEN l.stage
       ELSE upd[CHOOSE i \in hits : \A j \in hits : j <= i].stage

\* A commit that makes the INSERTs durable and loses the stage UPDATEs.
apply_leads_inserts_only(t) ==
    leads \cup {t.ins_leads[i] : i \in 1..Len(t.ins_leads)}

\* The committed tables after the rows of t are made durable.
ApplyLeads(t) ==
    {[l EXCEPT !.stage = StageOf(l, t.upd_stage)] : l \in leads}
        \cup {t.ins_leads[i] : i \in 1..Len(t.ins_leads)}
ApplyConsents(t) == consents \o t.ins_consents
\* A commit that leaves the StageHistory rows of the transaction out.
history_not_applied(t) == stage_history

ApplyHistory(t) == stage_history \o t.ins_history

\* ------------------------------------------------------------ responses
Response(status, detail, leadId) ==
    [status |-> status, detail |-> detail, leadId |-> leadId]

\* get_db after the handler: the rows of t become durable, the session is
\* closed and the response goes out.
EndRequest(r, t, response) ==
    /\ leads' = ApplyLeads(t)
    /\ consents' = ApplyConsents(t)
    /\ stage_history' = ApplyHistory(t)
    /\ pc' = [pc EXCEPT ![r] = "idle"]
    /\ local' = [local EXCEPT ![r] = NoLocal]
    /\ tx' = [tx EXCEPT ![r] = EmptyTx]
    /\ resp' = response

\* ------------------------------------------------- POST /api/v1/submit-lead
\* The consent flag is not looked at.
consent_not_checked(lead_data) == TRUE

consent_given(lead_data) == lead_data.consent

\* A resubmission that records the consent again for the lead it found.
existing_lead_new_consent(existing, lead_data) ==
    [EmptyTx EXCEPT !.ins_consents =
        <<[investor_id |-> existing.id,
           consent_text |-> "TCPA consent granted via web chatbot"]>>]

\* What submit_lead writes when the phone already belongs to a lead: nothing.
existing_lead_writes(existing, lead_data) == EmptyTx

\* An InvestorProfile built without copying the score of the qualification.
new_investor_without_score(id, lead_data, capital_available) ==
    LET q == lead_data.qualification
        has == IsSome(q)
    IN [id |-> id,
        phone |-> lead_data.phoneNumber,
        timeline |-> lead_data.investmentTimeline,
        capital_available |-> capital_available,
        investment_preferences |->
            IF IsSome(lead_data.investmentPreferences)
            THEN Get(lead_data.investmentPreferences) ELSE <<>>,
        stage |-> "new_lead",
        source |-> "web",
        investor_type |-> IF has THEN Some(Get(q).investorType) ELSE None,
        capacity |-> IF has THEN Some(Get(q).capacity) ELSE None,
        fit |-> IF has THEN Some(Get(q).fit) ELSE None,
        process |-> IF has THEN Some(Get(q).process) ELSE None,
        timing |-> IF has THEN Some(Get(q).timing) ELSE None,
        qualification_bucket |-> IF has THEN Some(Get(q).bucket) ELSE None,
        qualification_score |-> None,
        lead_score |-> 0]

\* The InvestorProfile built from the payload.
NewInvestor(id, lead_data, capital_available) ==
    LET q == lead_data.qualification
        has == IsSome(q)
    IN [id |-> id,
        phone |-> lead_data.phoneNumber,
        timeline |-> lead_data.investmentTimeline,
        capital_available |-> capital_available,
        investment_preferences |->
            IF IsSome(lead_data.investmentPreferences)
            THEN Get(lead_data.investmentPreferences) ELSE <<>>,
        stage |-> "new_lead",
        source |-> "web",
        investor_type |-> IF has THEN Some(Get(q).investorType) ELSE None,
        capacity |-> IF has THEN Some(Get(q).capacity) ELSE None,
        fit |-> IF has THEN Some(Get(q).fit) ELSE None,
        process |-> IF has THEN Some(Get(q).process) ELSE None,
        timing |-> IF has THEN Some(Get(q).timing) ELSE None,
        qualification_bucket |-> IF has THEN Some(Get(q).bucket) ELSE None,
        qualification_score |-> IF has THEN Some(Get(q).score) ELSE None,
        lead_score |-> IF has THEN Get(q).score ELSE 0]

\* uuid4 values still available to requests that are not yet past uuid4().
FreeIds == MaxLeads + 1 - nextId - Cardinality({q \in Req : pc[q] = "create"})

\* submit_lead up to the phone lookup: consent validation, get_by_phone, and
\* the early return when the phone is known.
SubmitLead(r, lead_data) ==
    LET p == lead_data.phoneNumber
        existing == get_by_phone(p)
    IN /\ pc[r] = "idle"
       /\ UNCHANGED adminVars
       /\ issued < MaxRequests
       /\ issued' = issued + 1
       /\ UNCHANGED <<nextId, okUpdates>>
       /\ IF ~consent_given(lead_data)
          THEN /\ EndRequest(r, rollback(tx[r]),
                     Response(400, "Consent is required for lead submission", None))
               /\ UNCHANGED intakeLog
          ELSE IF existing.raised
          THEN /\ EndRequest(r, rollback(tx[r]),
                     Response(500, "MultipleResultsFound", None))
               /\ intakeLog' = [intakeLog EXCEPT ![p] = Append(@, None)]
          ELSE IF IsSome(existing.value)
          THEN /\ EndRequest(r,
                     commit(existing_lead_writes(Get(existing.value), lead_data)),
                     Response(200, "Lead already exists", Some(Get(existing.value).id)))
               /\ intakeLog' =
                     [intakeLog EXCEPT ![p] = Append(@, Some(Get(existing.value).id))]
          ELSE /\ FreeIds > 0
               /\ pc' = [pc EXCEPT ![r] = "create"]
               /\ local' = [local EXCEPT ![r] =
                      [op |-> "submit_lead", lead_data |-> lead_data]]
               /\ UNCHANGED <<leads, consents, stage_history, tx, resp, intakeLog>>

\* capital_available as submit_lead and process_lead resolve it.
ResolveCapital(op, lead_data) ==
    IF IsSome(lead_data.qualification)
    THEN IF op = "submit_lead"
         THEN parse_capital(Some(Get(lead_data.qualification).capacity))
         ELSE parse_capital_to_int(Some(Get(lead_data.qualification).capacity))
    ELSE IF IsSome(lead_data.capitalAvailable) /\ lead_data.capitalAvailable # Some("")
    THEN IF op = "submit_lead"
         THEN parse_capital(lead_data.capitalAvailable)
         ELSE parse_capital_to_int(lead_data.capitalAvailable)
    ELSE None

\* The InvestorProfile is built and repo.create flushes its INSERT.
CreateInvestor(r) ==
    LET d == local[r].lead_data
        investor == NewInvestor(nextId, d, ResolveCapital(local[r].op, d))
    IN /\ pc[r] = "create"
       /\ UNCHANGED adminVars
       /\ nextId' = nextId + 1
       /\ IF phone_insert_accepted(investor, leads)
          THEN /\ tx' = [tx EXCEPT ![r].ins_leads = Append(@, investor)]
               /\ local' = [local EXCEPT ![r] =
                      [op |-> local[r].op, lead_data |-> d, investor_id |-> investor.id]]
               /\ pc' = [pc EXCEPT ![r] = "add_consent"]
               /\ UNCHANGED <<leads, consents, stage_history, resp, intakeLog>>
          ELSE /\ EndRequest(r, rollback(tx[r]), Response(500, "IntegrityError", None))
               /\ intakeLog' = [intakeLog EXCEPT ![d.phoneNumber] = Append(@, None)]
       /\ UNCHANGED <<issued, okUpdates>>

\* repo.add_consent flushes the INSERT of the Consent row.
AddConsent(r) ==
    /\ pc[r] = "add_consent"
    /\ UNCHANGED adminVars
    /\ tx' = [tx EXCEPT ![r].ins_consents = Append(@,
                 [investor_id |-> local[r].investor_id,
                  consent_text |-> "TCPA consent granted via web chatbot"])]
    /\ pc' = [pc EXCEPT ![r] =
                 IF local[r].op = "submit_lead" THEN "add_history" ELSE "commit"]
    /\ UNCHANGED <<leads, consents, stage_history, local, resp, nextId, issued,
                   intakeLog, okUpdates>>

\* The creation StageHistory row submit_lead adds to the session.
initial_stage_change(investor_id) ==
    [investor_id |-> investor_id, from_stage |-> None, to_stage |-> "new_lead",
     changed_by |-> "system", notes |-> Some("Lead submitted via chatbot")]

\* session.add(stage_change): the row is pending until the commit flushes it.
AddStageHistory(r) ==
    /\ pc[r] = "add_history"
    /\ UNCHANGED adminVars
    /\ tx' = [tx EXCEPT ![r].ins_history =
                 Append(@, initial_stage_change(local[r].investor_id))]
    /\ pc' = [pc EXCEPT ![r] = "commit"]
    /\ UNCHANGED <<leads, consents, stage_history, local, resp, nextId, issued,
                   intakeLog, okUpdates>>

\* -------------------------------------- PATCH /api/v1/admin/leads/{id}/stage
\* No validation of the stage value.
any_stage_valid(stage) == TRUE

\* A validation that accepts every pipeline stage but the first.
is_valid_stage_after_new_lead(stage) == stage \in VALID_STAGES \ {"new_lead"}

\* Validation against a list that has one value too many.
is_valid_stage_plus_archived(stage) == stage \in VALID_STAGES \cup {"archived"}

is_valid_stage(stage) == stage \in VALID_STAGES

\* update_lead_stage up to the read of the lead: stage validation, then
\* update_stage's get(investor_id) and its not-found return.
UpdateLeadStage(r, lead_id, stage_data) ==
    LET investor == get(lead_id)
    IN /\ pc[r] = "idle"
       /\ UNCHANGED adminVars
       /\ issued < MaxRequests
       /\ issued' = issued + 1
       /\ UNCHANGED <<nextId, intakeLog, okUpdates>>
       /\ IF ~is_valid_stage(stage_data.stage)
          THEN EndRequest(r, rollback(tx[r]),
                   Response(400, "Invalid stage. Must be one of: VALID_STAGES", None))
          ELSE IF ~IsSome(investor.value)
          THEN EndRequest(r, rollback(tx[r]), Response(404, "Lead not found", None))
          ELSE /\ pc' = [pc EXCEPT ![r] = "write_stage"]
               /\ local' = [local EXCEPT ![r] =
                      [op |-> "update_stage", investor_id |-> lead_id,
                       old_stage |-> Get(investor.value).stage,
                       new_stage |-> stage_data.stage, changed_by |-> "admin",
                       notes |-> stage_data.notes]]
               /\ UNCHANGED <<leads, consents, stage_history, tx, resp>>

\* Another open transaction holds the row lock of lead id (an unfinished UPDATE).
RowLocked(r, id) ==
    \E q \in Req \ {r} : \E i \in 1..Len(tx[q].upd_stage) : tx[q].upd_stage[i].id = id

\* A StageHistory row that records the new stage as the previous one too.
stage_change_from_new(investor_id, old_stage, new_stage, changed_by, notes) ==
    [investor_id |-> investor_id, from_stage |-> Some(new_stage),
     to_stage |-> new_stage, changed_by |-> changed_by, notes |-> notes]

\* A StageHistory row whose from_stage is read again from the store when the
\* row is written.
stage_change_from_store(investor_id, old_stage, new_stage, changed_by, notes) ==
    [investor_id |-> investor_id,
     from_stage |-> Some((CHOOSE l \in leads : l.id = investor_id).stage),
     to_stage |-> new_stage, changed_by |-> changed_by, notes |-> notes]

\* The StageHistory row update_stage records.
stage_change(investor_id, old_stage, new_stage, changed_by, notes) ==
    [investor_id |-> investor_id, from_stage |-> Some(old_stage),
     to_stage |-> new_stage, changed_by |-> changed_by, notes |-> notes]

\* update_stage from the assignment to the flush (the reload with relations
\* and the conversion to the response that follow only read, and are taken to
\* succeed): the UPDATE of the lead (issued
\* only when the attribute changed, and waiting for the row lock) and the INSERT
\* of the history row.
WriteStage(r) ==
    LET l == local[r]
        changed == l.new_stage # l.old_stage
    IN /\ pc[r] = "write_stage"
       /\ UNCHANGED adminVars
       /\ changed => ~RowLocked(r, l.investor_id)
       /\ tx' = [tx EXCEPT
                 ![r].upd_stage =
                     IF changed
                     THEN Append(@, [id |-> l.investor_id, stage |-> l.new_stage])
                     ELSE @,
                 ![r].ins_history =
                     Append(@, stage_change(l.investor_id, l.old_stage, l.new_stage,
                                            l.changed_by, l.notes))]
       /\ pc' = [pc EXCEPT ![r] = "commit"]
       /\ UNCHANGED <<leads, consents, stage_history, local, resp, nextId, issued,
                      intakeLog, okUpdates>>

\* --------------------------------------------------------- db/session.py
\* The handler returned: get_db commits the session.
Commit(r) ==
    LET l == local[r]
    IN /\ pc[r] = "commit"
       /\ UNCHANGED adminVars
       /\ IF l.op = "update_stage"
          THEN /\ EndRequest(r, commit(tx[r]), Response(200, "OK", Some(l.investor_id)))
               /\ okUpdates' = [okUpdates EXCEPT ![l.investor_id] = @ + 1]
               /\ UNCHANGED intakeLog
          ELSE /\ EndRequest(r, commit(tx[r]),
                     Response(200, "Lead submitted successfully", Some(l.investor_id)))
               /\ intakeLog' = [intakeLog EXCEPT ![l.lead_data.phoneNumber] =
                                    Append(@, Some(l.investor_id))]
               /\ UNCHANGED okUpdates
       /\ UNCHANGED <<nextId, issued>>

\* A store operation of the request fails (store unavailable, deadline
\* exceeded): the exception reaches get_db, which rolls the session back.
Fault(r) ==
    /\ pc[r] # "idle"
    /\ UNCHANGED adminVars
    /\ EndRequest(r, rollback(tx[r]), Response(500, "Internal Server Error", None))
    /\ intakeLog' =
           IF local[r].op = "update_stage" THEN intakeLog
           ELSE [intakeLog EXCEPT ![local[r].lead_data.phoneNumber] = Append(@, None)]
    /\ UNCHANGED <<nextId, issued, okUpdates>>

\* ------------------------------------------- services/lead_processor.py
\* LeadProcessor.process_lead up to the phone lookup, called with a session
\* whose owner commits when the call returns.
ProcessLead(r, lead_data) ==
    LET p == lead_data.phoneNumber
        existing == get_by_phone(p)
    IN /\ pc[r] = "idle"
       /\ UNCHANGED adminVars
       /\ issued < MaxRequests
       /\ issued' = issued + 1
       /\ UNCHANGED <<nextId, okUpdates>>
       /\ IF existing.raised
          THEN /\ EndRequest(r, rollback(tx[r]),
                     Response(500, "MultipleResultsFound", None))
               /\ intakeLog' = [intakeLog EXCEPT ![p] = Append(@, None)]
          ELSE IF IsSome(existing.value)
          THEN /\ EndRequest(r, commit(EmptyTx),
                     Response(200, "existing", Some(Get(existing.value).id)))
               /\ intakeLog' =
                     [intakeLog EXCEPT ![p] = Append(@, Some(Get(existing.value).id))]
          ELSE /\ FreeIds > 0
               /\ pc' = [pc EXCEPT ![r] = "create"]
               /\ local' = [local EXCEPT ![r] =
                      [op |-> "process_lead", lead_data |-> lead_data]]
               /\ UNCHANGED <<leads, consents, stage_history, tx, resp, intakeLog>>

\* ------------------------------------------------------- specifications
Steps(r) ==
    \/ CreateInvestor(r)
    \/ AddConsent(r)
    \/ AddStageHistory(r)
    \/ WriteStage(r)
    \/ Commit(r)

\* A new request is served in the lowest free slot (slots are interchangeable).
LowestIdle(r) == \A q \in Req : q < r => pc[q] # "idle"

\* The API under concurrent requests and store failures.
Next ==
    \E r \in Req :
        \/ \E d \in ConcurrentSubmissions : LowestIdle(r) /\ SubmitLead(r, d)
        \/ \E id \in LeadIds, sd \in ConcurrentStageRequests :
               LowestIdle(r) /\ UpdateLeadStage(r, id, sd)
        \/ Steps(r)
        \/ Fault(r)

Spec == Init /\ [][Next]_vars

\* The API with one request at a time and a store that does not fail.
NextSeq ==
    \/ \E d \in Submissions : SubmitLead(1, d)
    \/ \E id \in LeadIds, sd \in StageRequests : UpdateLeadStage(1, id, sd)
    \/ Steps(1)

SpecSeq == Init /\ [][NextSeq]_vars

\* The intake service called directly, one call at a time.
NextService ==
    \/ \E d \in Submissions : ProcessLead(1, d)
    \/ CreateInvestor(1)
    \/ AddConsent(1)
    \/ Commit(1)

SpecService == Init /\ [][NextService]_vars

\* ------------------------------------------------------- derived views
LeadsWithPhone(p) == {l \in leads : l.phone = p}
ConsentsOf(id) == SelectSeq(consents, LAMBDA c : c.investor_id = id)
HistoryOf(id) == SelectSeq(stage_history, LAMBDA h : h.investor_id = id)
IsCreationRow(h) == h.from_stage = None /\ h.to_stage = "new_lead"
CreationRowsOf(id) == SelectSeq(HistoryOf(id), IsCreationRow)
Range(q) == {q[i] : i \in 1..Len(q)}
CommittedUnchanged ==
    /\ leads' = leads
    /\ consents' = consents
    /\ stage_history' = stage_history

\* ================================================================ claims

\* C1 (SpecSeq): when the intake is run twice or more, one after the other,
\* with the same phone and consent = true, every run returns the same leadId,
\* and afterwards exactly one lead, one Consent row and one creation
\* StageHistory row exist for that phone.
C1_IdempotentIntake ==
    \A p \in Phones :
        Len(intakeLog[p]) >= 2 =>
            \E l \in leads :
                /\ Range(intakeLog[p]) = {Some(l.id)}
                /\ LeadsWithPhone(p) = {l}
                /\ Len(ConsentsOf(l.id)) = 1
                /\ Len(CreationRowsOf(l.id)) = 1

C1_Witness ==
    \E p \in Phones :
        /\ Len(intakeLog[p]) >= 2
        /\ resp.detail = "Lead already exists"
        /\ Cardinality(LeadsWithPhone(p)) = 1

\* C2 (Spec): the stage of every lead, committed or written by an open
\* transaction, is one of the seven pipeline stages.
C2_StageInValidSet ==
    /\ \A l \in leads : l.stage \in VALID_STAGES
    /\ \A r \in Req :
        /\ \A i \in 1..Len(tx[r].ins_leads) : tx[r].ins_leads[i].stage \in VALID_STAGES
        /\ \A i \in 1..Len(tx[r].upd_stage) : tx[r].upd_stage[i].stage \in VALID_STAGES

C2_Witness ==
    /\ \E l \in leads : l.stage = "closed"
    /\ resp.status = 400

\* C3 (Spec): a stage-update request whose stage is outside the seven stages is
\* answered 400 without the repository being called: no transaction is opened,
\* and the committed leads and StageHistory rows are the same after it.
C3_StageClosure ==
    [][\A r \in Req, id \in LeadIds, sd \in ConcurrentStageRequests :
          (sd.stage \notin VALID_STAGES /\ UpdateLeadStage(r, id, sd)) =>
              /\ resp'.status = 400
              /\ CommittedUnchanged
              /\ pc'[r] = "idle"
              /\ local' = local
              /\ tx' = tx]_vars

C3_Witness ==
    /\ resp.status = 400
    /\ resp.detail = "Invalid stage. Must be one of: VALID_STAGES"
    /\ \E l \in leads : Len(HistoryOf(l.id)) >= 1

C5_IntakeAtomic ==
    /\ \A l \in leads :
        /\ Len(ConsentsOf(l.id)) = 1
        /\ Len(CreationRowsOf(l.id)) = 1
    /\ \A c \in Range(consents) : \E l \in leads : l.id = c.investor_id
    /\ \A h \in Range(stage_history) : \E l \in leads : l.id = h.investor_id

\* An intake failed after its lead INSERT was flushed, and nothing of it is visible.
C5_Witness ==
    /\ nextId > 1
    /\ leads = {}
    /\ consents = <<>>
    /\ stage_history = <<>>
    /\ resp.detail = "Internal Server Error"

\* C6 (SpecService): every lead process_lead creates has exactly one Consent
\* row and exactly one creation StageHistory row.
C6_ServiceRecordsHistory ==
    \A l \in leads :
        /\ Len(ConsentsOf(l.id)) = 1
        /\ Len(CreationRowsOf(l.id)) = 1
        /\ \A i \in 1..Len(CreationRowsOf(l.id)) :
               CreationRowsOf(l.id)[i].changed_by = "system"

\* C7 (Spec): an intake with consent = false is answered 400 before any lookup
\* or write: no transaction is opened and leads, Consent rows and StageHistory
\* rows are unchanged.
C7_RefusedConsent ==
    [][\A r \in Req, d \in ConcurrentSubmissions :
          (~d.consent /\ SubmitLead(r, d)) =>
              /\ resp'.status = 400
              /\ CommittedUnchanged
              /\ pc'[r] = "idle"
              /\ local' = local
              /\ tx' = tx
              /\ intakeLog' = intakeLog]_vars

C7_Witness ==
    /\ resp.status = 400
    /\ resp.detail = "Consent is required for lead submission"
    /\ leads # {}

\* C8 (Spec): the store never rejects the INSERT of a lead: an intake that found
\* no lead at its lookup has its row flushed, also when a lead with that phone
\* was committed in between.
C8_SecondInsertNotRejected ==
    /\ resp.detail # "IntegrityError"
    /\ \A r \in Req :
        (pc[r] \in {"add_consent", "add_history", "commit"} /\ local[r].op = "submit_lead")
            => Len(tx[r].ins_leads) = 1

\* Two distinct committed leads carry the same phone.
C8_Witness ==
    \E l1 \in leads, l2 \in leads : l1.id # l2.id /\ l1.phone = l2.phone

\* C9 (Spec): get_by_phone never fails, returns a lead with the phone when one
\* or more exist and none otherwise; no intake fails at its lookup.
C9_LookupNeverFails ==
    /\ \A p \in Phones :
        LET found == get_by_phone(p)
        IN /\ ~found.raised
           /\ LeadsWithPhone(p) # {} =>
                  (IsSome(found.value) /\ Get(found.value) \in LeadsWithPhone(p))
           /\ LeadsWithPhone(p) = {} => found.value = None
    /\ resp.detail # "MultipleResultsFound"

\* C10 (SpecSeq): an intake for a phone that already belongs to a lead changes
\* no lead and inserts no lead, Consent or StageHistory row, whatever
\* qualification data it carries.
C10_ResubmissionNoChange ==
    [][\A r \in Req, d \in Submissions :
          (/\ d.consent
           /\ LeadsWithPhone(d.phoneNumber) # {}
           /\ pc[r] = "idle"
           /\ SubmitLead(r, d)) =>
              /\ CommittedUnchanged
              /\ tx' = tx
              /\ pc'[r] = "idle"]_vars

C10_Witness ==
    /\ resp.detail = "Lead already exists"
    /\ \E l \in leads : l.stage # "new_lead" /\ IsSome(l.qualification_score)

\* ------------------------------------------- the pure functions, applied
MaxTotal == 5
PAGE_SIZE_MAX == 100

\* Optional[str] arguments of the capital parsers: the four brackets, absent,
\* empty, "other:"-prefixed strings and strings outside the table.
CapitalInputs ==
    {None, Some("")}
        \cup {Some(b) : b \in DOMAIN capital_map}
        \cup {Some(o) : o \in OtherPrefixed \cup {"other:", "other:$1M+"}}
        \cup {Some("$2M+"), Some("$1m+"), Some("175000"), Some("$1M"), Some("other")}

\* A call of routers.leads.parse_capital.
ParseCapital(capital_str) ==
    /\ view' = [op |-> "parse_capital", arg |-> capital_str,
                result |-> parse_capital(capital_str)]
    /\ UNCHANGED <<requestVars, tableVars>>

\* A call of services.lead_processor.parse_capital_to_int.
ParseCapitalToInt(capital_str) ==
    /\ view' = [op |-> "parse_capital_to_int", arg |-> capital_str,
                result |-> parse_capital_to_int(capital_str)]
    /\ UNCHANGED <<requestVars, tableVars>>

\* math.ceil(a / b) for a >= 0, b >= 1 (the quotient is exact in a float for
\* every count a table can hold).
ceil(a, b) == IF a % b = 0 THEN a \div b ELSE a \div b + 1

\* totalPages without the floor of one page.
total_pages_no_floor(total, page_size) == ceil(total, page_size)

\* list_leads: total_pages = math.ceil(total / page_size) if total > 0 else 1
total_pages(total, page_size) ==
    IF total > 0 THEN ceil(total, page_size) ELSE 1

\* The page arithmetic of list_leads on a count and an accepted pageSize.
TotalPages(total, page_size) ==
    /\ view' = [op |-> "total_pages", total |-> total, pageSize |-> page_size,
                totalPages |-> total_pages(total, page_size)]
    /\ UNCHANGED <<requestVars, tableVars>>

\* ----------------------------------------- GET /api/v1/admin/leads/{id}
\* Python truth of an Optional[str]: present and not empty.
Truthy(o) == IsSome(o) /\ Get(o) # ""

\* x or "" for an Optional[str].
OrEmpty(o) == IF Truthy(o) THEN Get(o) ELSE ""

\* The qualification block built whenever investor_type is set.
qualification_if_type_set(lead) ==
    IF Truthy(lead.investor_type) THEN Some([bucket |-> lead.qualification_bucket])
    ELSE None

\* _investor_to_response: the qualification block.
qualification_of(lead) ==
    IF Truthy(lead.investor_type) /\ Truthy(lead.qualification_bucket)
    THEN Some([investorType |-> Get(lead.investor_type),
               capacity |-> OrEmpty(lead.capacity),
               fit |-> OrEmpty(lead.fit),
               process |-> OrEmpty(lead.process),
               timing |-> OrEmpty(lead.timing),
               score |-> IF IsSome(lead.qualification_score)
                            /\ Get(lead.qualification_score) # 0
                         THEN Get(lead.qualification_score) ELSE lead.lead_score,
               bucket |-> Get(lead.qualification_bucket)])
    ELSE None

\* _investor_to_response, without the display name (its declaration is in
\* models/base.py or nowhere) and the lists of related rows.
investor_to_response(lead) ==
    [id |-> lead.id, phone |-> lead.phone, stage |-> lead.stage,
     leadScore |-> lead.lead_score, capitalAvailable |-> lead.capital_available,
     qualification |-> qualification_of(lead)]

\* Qualification payloads with one of investorType and bucket empty.
QualTypeOnly == [QualA EXCEPT !.bucket = ""]
QualBucketOnly == [QualB EXCEPT !.investorType = ""]

\* Leads as the intake stores them, one per qualification payload.
ResponseInputs ==
    {NewInvestor(1, d, ResolveCapital("submit_lead", d)) :
        d \in [phoneNumber : Phones, consent : {TRUE},
               qualification : {None, Some(QualA), Some(QualB),
                                Some(QualTypeOnly), Some(QualBucketOnly)},
               investmentTimeline : {None}, capitalAvailable : {None},
               investmentPreferences : {None}]}

\* A call of _investor_to_response.
InvestorToResponse(lead) ==
    /\ view' = [op |-> "investor_to_response", lead |-> lead,
                response |-> investor_to_response(lead)]
    /\ UNCHANGED <<requestVars, tableVars>>

NextPure ==
    \/ \E s \in CapitalInputs : ParseCapital(s)
    \/ \E s \in CapitalInputs : ParseCapitalToInt(s)
    \/ \E total \in 0..MaxTotal, page_size \in 1..PAGE_SIZE_MAX :
           TotalPages(total, page_size)
    \/ \E lead \in ResponseInputs : InvestorToResponse(lead)

SpecPure == Init /\ [][NextPure]_vars

\* C12 (SpecPure): totalPages is ceil(total / pageSize) when total > 0 and 1
\* when total = 0, for every pageSize in 1..100: it is never 0, and
\* totalPages * pageSize >= total > (totalPages - 1) * pageSize when total > 0.
C12_PaginationMath ==
    view.op = "total_pages" =>
        /\ view.totalPages >= 1
        /\ view.total = 0 => view.totalPages = 1
        /\ view.total > 0 =>
               /\ view.totalPages * view.pageSize >= view.total
               /\ view.total > (view.totalPages - 1) * view.pageSize

C12_Witness ==
    /\ view.op = "total_pages"
    /\ view.total = 5 /\ view.pageSize = 2 /\ view.totalPages = 3

\* C13 (SpecPure): both capital parsers map the four brackets to 175000,
\* 375000, 750000 and 1500000, and every other argument (absent, empty,
\* "other:"-prefixed, unknown) to null.
C13_CapitalMapping ==
    view.op \in {"parse_capital", "parse_capital_to_int"} =>
        /\ view.arg = Some("$100K-$250K") => view.result = Some(175000)
        /\ view.arg = Some("$250K-$500K") => view.result = Some(375000)
        /\ view.arg = Some("$500K-$1M") => view.result = Some(750000)
        /\ view.arg = Some("$1M+") => view.result = Some(1500000)
        /\ view.arg \notin {Some("$100K-$250K"), Some("$250K-$500K"),
                            Some("$500K-$1M"), Some("$1M+")} =>
               view.result = None

C13_Witness ==
    /\ view.op = "parse_capital"
    /\ view.arg = Some("other:$1M+")
    /\ view.result = None

MaxRows == 5
MaxPage == 3
MaxPageSize == 2

PlainLead ==
    [phoneNumber |-> "+15550000001", consent |-> TRUE, qualification |-> None,
     investmentTimeline |-> None, capitalAvailable |-> None,
     investmentPreferences |-> None]

\* The leads a listed table is made of: the payload that created the lead and
\* the stage stage updates have moved it to.
RowKinds ==
    {[lead_data |-> PlainLead, stage |-> "new_lead"],
     [lead_data |-> [PlainLead EXCEPT !.phoneNumber = "+15550000002",
                                      !.qualification = Some(QualA)],
      stage |-> "under_review"]}

\* The row of lead i of kind k; the leads are numbered in the order of created_at.
AdminRow(i, k) ==
    [NewInvestor(i, k.lead_data, ResolveCapital("submit_lead", k.lead_data))
        EXCEPT !.stage = k.stage]

created_at(l) == l.id

\* The investor_profiles tables of n leads.
TablesOfSize(n) == {{AdminRow(i, f[i]) : i \in 1..n} : f \in [1..n -> RowKinds]}

\* The investor_profiles tables of up to MaxRows leads.
LeadTables == UNION {TablesOfSize(n) : n \in 0..MaxRows}

\* The consents and stage_history rows of a table of leads.
RECURSIVE ConsentRows(_)
ConsentRows(n) ==
    IF n = 0 THEN <<>>
    ELSE Append(ConsentRows(n - 1),
                [investor_id |-> n,
                 consent_text |-> "TCPA consent granted via web chatbot"])

RECURSIVE HistoryRows(_, _)
HistoryRows(rows, n) ==
    IF n = 0 THEN <<>>
    ELSE LET l == CHOOSE x \in rows : x.id = n
             before == Append(HistoryRows(rows, n - 1), initial_stage_change(n))
         IN IF l.stage = "new_lead" THEN before
            ELSE Append(before, stage_change(n, "new_lead", l.stage, "admin", None))

\* The state after intakes and stage updates have built the table rows.
TablesAre(rows) ==
    /\ leads = rows
    /\ consents = ConsentRows(Cardinality(rows))
    /\ stage_history = HistoryRows(rows, Cardinality(rows))
    /\ pc = [r \in Req |-> "idle"]
    /\ local = [r \in Req |-> NoLocal]
    /\ tx = [r \in Req |-> EmptyTx]
    /\ resp = NoResp
    /\ nextId = Cardinality(rows) + 1
    /\ issued = 0
    /\ intakeLog = [p \in Phones |-> <<>>]
    /\ okUpdates = [i \in LeadIds |-> 0]

InitAdmin ==
    /\ \E rows \in LeadTables : TablesAre(rows)
    /\ lead_notes = {}
    /\ call_sessions = {}
    /\ deal_matches = {}
    /\ properties = {}
    /\ property_features = {}
    /\ property_documents = {}
    /\ nextRow = 1
    /\ view = NoView

\* The filters of a list request (every one Optional).
NoFilter ==
    [stage |-> None, score_min |-> None, score_max |-> None,
     capital_min |-> None, capital_max |-> None, date_from |-> None,
     date_to |-> None, search |-> None]

\* The dateFrom/dateTo strings of the requests.
Jan2 == "2024-01-02T00:00:00Z"
Jan4 == "2024-01-04T00:00:00+00:00"

\* The query parameters of the list requests (dateFrom and dateTo are strings).
AdminFilters ==
    {NoFilter,
     [NoFilter EXCEPT !.stage = Some("new_lead")],
     [NoFilter EXCEPT !.stage = Some(""), !.score_min = Some(50)],
     [NoFilter EXCEPT !.capital_min = Some(100000), !.date_from = Some(Jan2)],
     [NoFilter EXCEPT !.search = Some("0001"), !.score_max = Some(10),
                      !.capital_max = Some(400000), !.date_to = Some(Jan4)],
     [NoFilter EXCEPT !.score_max = Some(0), !.search = Some(""),
                      !.date_from = Some("yesterday")],
     [NoFilter EXCEPT !.capital_min = Some(0), !.date_to = Some("soon")]}

\* str.replace(old, new) for a one-character old.
RECURSIVE replace(_, _, _)
replace(s, old, new) ==
    IF Len(s) = 0 THEN ""
    ELSE (IF SubSeq(s, 1, 1) = old THEN new ELSE SubSeq(s, 1, 1))
             \o replace(SubSeq(s, 2, Len(s)), old, new)

DayDigits == [d \in {"1", "2", "3", "4", "5", "6", "7", "8", "9"} |->
                 CASE d = "1" -> 1 [] d = "2" -> 2 [] d = "3" -> 3 [] d = "4" -> 4
                   [] d = "5" -> 5 [] d = "6" -> 6 [] d = "7" -> 7 [] d = "8" -> 8
                   [] d = "9" -> 9]

\* datetime.fromisoformat on the strings of the requests: the midnights of
\* 2024-01-01 .. 2024-01-09 with an explicit UTC offset parse to their day,
\* anything else here raises ValueError.
fromisoformat(s) ==
    IF /\ Len(s) = 25
       /\ SubSeq(s, 1, 9) = "2024-01-0"
       /\ SubSeq(s, 10, 10) \in DOMAIN DayDigits
       /\ SubSeq(s, 11, 25) = "T00:00:00+00:00"
    THEN [raised |-> FALSE, value |-> Some(DayDigits[SubSeq(s, 10, 10)])]
    ELSE [raised |-> TRUE, value |-> None]

\* A date parameter whose ValueError is answered with the earliest date.
parse_date_param_epoch(date_str) ==
    IF ~Truthy(date_str) THEN None
    ELSE LET parsed == fromisoformat(replace(Get(date_str), "Z", "+00:00"))
         IN IF parsed.raised THEN Some(0) ELSE parsed.value

\* list_leads: if date_from: try fromisoformat(date_from.replace("Z",
\* "+00:00")) except ValueError: pass -- the date stays None.
parse_date_param(date_str) ==
    IF ~Truthy(date_str) THEN None
    ELSE LET parsed == fromisoformat(replace(Get(date_str), "Z", "+00:00"))
         IN IF parsed.raised THEN None ELSE parsed.value

\* The arguments list_leads passes to search_leads.
search_arguments(q) ==
    [q EXCEPT !.date_from = parse_date_param(q.date_from),
              !.date_to = parse_date_param(q.date_to)]

SortParams ==
    {<<"created_at", "desc">>, <<"lead_score", "desc">>, <<"lead_score", "asc">>,
     <<"capital_available", "asc">>, <<"name", "up">>}

\* column.contains(sub): sub occurs in s.
contains(s, sub) ==
    \E i \in 1..(Len(s) - Len(sub) + 1) : SubSeq(s, i, i + Len(sub) - 1) = sub

\* A search that applies the stage filter alone.
matches_stage_only(l, f) == Truthy(f.stage) => l.stage = Get(f.stage)

\* A search that tests its bounds by truth value, so that a bound of 0 is
\* dropped, and that compares a NULL capital as 0.
matches_truthy_bounds(l, f) ==
    LET capital == IF IsSome(l.capital_available) THEN Get(l.capital_available) ELSE 0
    IN /\ Truthy(f.stage) => l.stage = Get(f.stage)
       /\ (IsSome(f.score_min) /\ Get(f.score_min) # 0) => l.lead_score >= Get(f.score_min)
       /\ (IsSome(f.score_max) /\ Get(f.score_max) # 0) => l.lead_score <= Get(f.score_max)
       /\ (IsSome(f.capital_min) /\ Get(f.capital_min) # 0) => capital >= Get(f.capital_min)
       /\ (IsSome(f.capital_max) /\ Get(f.capital_max) # 0) => capital <= Get(f.capital_max)
       /\ IsSome(f.date_from) => created_at(l) >= Get(f.date_from)
       /\ IsSome(f.date_to) => created_at(l) <= Get(f.date_to)
       /\ Truthy(f.search) => contains(l.phone, Get(f.search))

\* The WHERE clauses search_leads adds.
Matches(l, f) ==
    /\ Truthy(f.stage) => l.stage = Get(f.stage)
    /\ IsSome(f.score_min) => l.lead_score >= Get(f.score_min)
    /\ IsSome(f.score_max) => l.lead_score <= Get(f.score_max)
    /\ IsSome(f.capital_min) =>
           IsSome(l.capital_available) /\ Get(l.capital_available) >= Get(f.capital_min)
    /\ IsSome(f.capital_max) =>
           IsSome(l.capital_available) /\ Get(l.capital_available) <= Get(f.capital_max)
    /\ IsSome(f.date_from) => created_at(l) >= Get(f.date_from)
    /\ IsSome(f.date_to) => created_at(l) <= Get(f.date_to)
    /\ Truthy(f.search) => contains(l.phone, Get(f.search))

\* sort_column_map.get(sort_by, created_at), as the value rows are ordered by;
\* a NULL sorts above every value.
sort_value(l, sort_by) ==
    IF sort_by = "lead_score" THEN l.lead_score
    ELSE IF sort_by = "capital_available"
    THEN IF IsSome(l.capital_available) THEN Get(l.capital_available)
         ELSE capital_map["$1M+"] + 1
    ELSE created_at(l)

\* Row a must come before row b in the ORDER BY.
Precedes(a, b, sort_by, sort_order) ==
    IF sort_order = "desc"
    THEN sort_value(a, sort_by) > sort_value(b, sort_by)
    ELSE sort_value(a, sort_by) < sort_value(b, sort_by)

\* The orders the ORDER BY can return the rows in: rows of equal sort value
\* come in any order.
RECURSIVE Orders(_, _, _)
Orders(rows, sort_by, sort_order) ==
    IF rows = {} THEN {<<>>}
    ELSE UNION {{<<m>> \o o : o \in Orders(rows \ {m}, sort_by, sort_order)} :
                   m \in {x \in rows :
                             \A y \in rows : ~Precedes(y, x, sort_by, sort_order)}}

\* The count taken from the page instead of the filtered query.
count_after_pagination(matching, page) == Len(page)

\* select(func.count()).select_from(query.subquery()), before offset and limit.
count_before_pagination(matching, page) == Cardinality(matching)

\* query.offset(skip).limit(limit)
offset_limit(order, skip, limit) ==
    IF skip >= Len(order) THEN <<>>
    ELSE SubSeq(order, skip + 1,
                IF skip + limit <= Len(order) THEN skip + limit ELSE Len(order))

\* InvestorRepository.search_leads: the (leads, total) pairs it can return.
search_leads(rows, f, sort_by, sort_order, skip, limit) ==
    LET matching == {l \in rows : Matches(l, f)}
    IN {[leads |-> offset_limit(o, skip, limit),
         total |-> count_before_pagination(matching, offset_limit(o, skip, limit))] :
            o \in Orders(matching, sort_by, sort_order)}

\* list_leads, for accepted page and pageSize.
ListLeads(q, sort_by, sort_order, page, page_size) ==
    LET skip == (page - 1) * page_size
        f == search_arguments(q)
    IN /\ view = NoView
       /\ \E found \in search_leads(leads, f, sort_by, sort_order, skip, page_size) :
              view' = [op |-> "list_leads", query |-> q, filter |-> f,
                       sort_by |-> sort_by, sort_order |-> sort_order,
                       leads |-> [i \in 1..Len(found.leads) |->
                                     investor_to_response(found.leads[i])],
                       total |-> found.total, page |-> page,
                       pageSize |-> page_size,
                       totalPages |-> total_pages(found.total, page_size)]
       /\ UNCHANGED <<requestVars, tableVars>>

\* SUM(lead_score) over the rows.
RECURSIVE sum_lead_score(_)
sum_lead_score(rows) ==
    IF rows = {} THEN 0
    ELSE LET l == CHOOSE x \in rows : TRUE
         IN l.lead_score + sum_lead_score(rows \ {l})

\* A number as a quotient of integers.
Quotient(num, den) == [num |-> num, den |-> den]

\* select(func.avg(lead_score)): NULL over no rows.
sql_avg(rows) ==
    IF rows = {} THEN None
    ELSE Some(Quotient(sum_lead_score(rows), Cardinality(rows)))

\* float(avg) without the guard: of None it is no number.
get_average_score_unguarded(rows) ==
    IF IsSome(sql_avg(rows)) THEN Get(sql_avg(rows)) ELSE Quotient(0, 0)

\* get_average_score: float(avg) if avg else 0.0
get_average_score(rows) ==
    LET avg == sql_avg(rows)
    IN IF IsSome(avg) /\ Get(avg).num # 0 THEN Get(avg) ELSE Quotient(0, 1)

\* A call of InvestorRepository.get_average_score.
GetAverageScore ==
    /\ view = NoView
    /\ view' = [op |-> "get_average_score", result |-> get_average_score(leads)]
    /\ UNCHANGED <<requestVars, tableVars>>

\* The response has gone out.
Respond ==
    /\ view # NoView
    /\ view' = NoView
    /\ UNCHANGED <<requestVars, tableVars>>

NextAdmin ==
    \/ \E f \in AdminFilters, s \in SortParams,
          page \in 1..MaxPage, page_size \in 1..MaxPageSize :
           ListLeads(f, s[1], s[2], page, page_size)
    \/ GetAverageScore
    \/ Respond

SpecAdmin == InitAdmin /\ [][NextAdmin]_vars

\* The investor_profiles row with the given id.
RowOf(id) == CHOOSE l \in leads : l.id = id

\* C11 (SpecAdmin): a lead list reports as total the number of all leads that
\* match the filters, whatever the page and page size; the page holds at most
\* pageSize leads, and they are the leads at positions skip .. skip+pageSize-1
\* of the matching leads in the requested order.
C11_CountPrecedesPagination ==
    view.op = "list_leads" =>
        LET matching == {l \in leads : Matches(l, view.filter)}
            skip == (view.page - 1) * view.pageSize
            n == Len(view.leads)
            row(i) == RowOf(view.leads[i].id)
            before(a, b) == Precedes(a, b, view.sort_by, view.sort_order)
            rest == matching \ {row(i) : i \in 1..n}
            left == view.total - skip
        IN /\ view.total = Cardinality(matching)
           /\ n <= view.pageSize
           /\ n = IF left <= 0 THEN 0
                  ELSE IF left < view.pageSize THEN left ELSE view.pageSize
           /\ \A i \in 1..n : row(i) \in matching
           /\ \A i, j \in 1..n : i < j =>
                  row(i) # row(j) /\ ~before(row(j), row(i))
           /\ n > 0 =>
                  /\ \A x \in rest : ~before(row(1), x) \/ ~before(x, row(n))
                  /\ Cardinality({x \in rest : before(x, row(n))}) <= skip
                  /\ skip <= Cardinality({x \in rest : ~before(row(1), x)})

C11_Witness ==
    /\ view.op = "list_leads"
    /\ view.filter.stage = Some("new_lead")
    /\ view.total = 5
    /\ view.pageSize = 2 /\ view.page = 3
    /\ Len(view.leads) = 1
    /\ view.totalPages = 3

\* C14 (SpecAdmin): get_average_score returns the arithmetic mean of lead_score
\* over all leads, and the number 0.0 when there are no leads or when every
\* lead has lead_score 0.
C14_AverageScore ==
    view.op = "get_average_score" =>
        LET n == Cardinality(leads)
        IN /\ view.result.den > 0
           /\ n = 0 => view.result.num = 0
           /\ n > 0 => view.result.num * n = sum_lead_score(leads) * view.result.den
           /\ (\A l \in leads : l.lead_score = 0) => view.result.num = 0

C14_Witness ==
    /\ view.op = "get_average_score"
    /\ \E l \in leads : l.lead_score = 0
    /\ \E l \in leads : l.lead_score > 0
    /\ view.result.num * Cardinality(leads) = sum_lead_score(leads) * view.result.den
    /\ view.result.num > 0

\* ------------------------------------------- GET /api/v1/admin/stats
MaxDeals == 2
RECENT_LIMIT == 5

\* The status values of the Property comment.
DealStatuses == {"active", "closed", "paused"}

\* The properties tables of up to MaxDeals deals, each created active and
\* moved to its status by updates.
DealTables ==
    UNION {{{[id |-> i, status |-> f[i]] : i \in 1..m} : f \in [1..m -> DealStatuses]} :
              m \in 0..MaxDeals}

InitStats ==
    /\ \E rows \in LeadTables \cup TablesOfSize(MaxRows + 1) : TablesAre(rows)
    /\ properties \in DealTables
    /\ nextRow = Cardinality(properties) + 1
    /\ lead_notes = {}
    /\ call_sessions = {}
    /\ deal_matches = {}
    /\ property_features = {}
    /\ property_documents = {}
    /\ view = NoView

\* s[:n]
prefix(s, n) == IF Len(s) <= n THEN s ELSE SubSeq(s, 1, n)

\* BaseRepository.count: select(func.count()).select_from(self.model)
count(rows) == Cardinality(rows)

\* A count per stage that lists every pipeline stage, with 0 for the empty ones.
get_stats_by_stage_all_stages(rows) ==
    [st \in VALID_STAGES \cup {l.stage : l \in rows} |->
        Cardinality({l \in rows : l.stage = st})]

\* get_stats_by_stage: one entry per stage that has a lead.
get_stats_by_stage(rows) ==
    [st \in {l.stage : l \in rows} |-> Cardinality({l \in rows : l.stage = st})]

\* round(x, 1) in tenths: a nearest tenth (either one where x lies half-way,
\* as the float of x decides).
round_tenths(x) ==
    {t \in 0..1000 :
        /\ 20 * x.num - x.den <= 2 * t * x.den
        /\ 2 * t * x.den <= 20 * x.num + x.den}

\* The ActivityItem built for a recent lead.
activity_item(lead) ==
    [id |-> lead.id, type |-> "new_lead",
     message |-> "New lead from " \o prefix(lead.phone, 6) \o "***",
     timestamp |-> created_at(lead)]

\* get_stats
GetStats ==
    /\ view = NoView
    /\ \E recent \in search_leads(leads, NoFilter, "created_at", "desc", 0, RECENT_LIMIT),
          average \in round_tenths(get_average_score(leads)) :
           view' = [op |-> "get_stats",
                    totalLeads |-> count(leads),
                    byStage |-> get_stats_by_stage(leads),
                    averageScore |-> average,
                    totalDeals |-> count(properties),
                    recentActivity |->
                        [i \in 1..Len(recent.leads) |-> activity_item(recent.leads[i])]]
    /\ UNCHANGED <<requestVars, tableVars>>

NextStats ==
    \/ GetStats
    \/ Respond

SpecStats == InitStats /\ [][NextStats]_vars

\* C17 (SpecStats): the stats report as totalDeals the number of deals whose
\* status is active, as totalLeads the number of leads, and at most 5
\* recent-activity items, each of one of the most recently created leads and
\* showing the first 6 characters of its phone.
C17_StatsTotals ==
    view.op = "get_stats" =>
        LET items == view.recentActivity
            shown == {items[i].id : i \in 1..Len(items)}
        IN /\ view.totalDeals = Cardinality({p \in properties : p.status = "active"})
           /\ view.totalLeads = Cardinality(leads)
           /\ Len(items) <= 5
           /\ Len(items) = Cardinality(shown)
           /\ \A i \in 1..Len(items) :
                  \E l \in leads :
                      /\ l.id = items[i].id
                      /\ items[i].message = "New lead from " \o SubSeq(l.phone, 1, 6) \o "***"
                      /\ \A o \in leads : created_at(o) > created_at(l) => o.id \in shown

\* ----------------------------------------- deals, related rows and deletes
MaxChildren == 2

DealIds == 1..MaxDeals

\* DealUpdateRequest.status: Optional[str] with no validator.
StatusInputs == {None, Some("closed"), Some("sold")}

\* The status argument of PropertyRepository.update_status: any str.
StatusArguments == {"closed", "sold"}

\* MaxLeads leads submitted without qualification, each with its Consent row
\* and creation StageHistory row; no deal yet.
InitDeals ==
    /\ TablesAre({AdminRow(i, [lead_data |-> PlainLead, stage |-> "new_lead"]) :
                     i \in 1..MaxLeads})
    /\ lead_notes = {}
    /\ call_sessions = {}
    /\ deal_matches = {}
    /\ properties = {}
    /\ property_features = {}
    /\ property_documents = {}
    /\ nextRow = 1
    /\ view = NoView

\* Rows of the tables that reference a lead or a deal.
ChildCount ==
    Cardinality(lead_notes) + Cardinality(call_sessions) + Cardinality(deal_matches)
        + Cardinality(property_features) + Cardinality(property_documents)

\* A foreign key without ON DELETE CASCADE that let the parent go.
on_delete_nothing(children, fk, id) == children

\* ForeignKey(..., ondelete="CASCADE"): the rows that reference the deleted
\* parent go with it.
on_delete_cascade(children, fk, id) == {c \in children : c[fk] # id}

\* The same for the tables kept in insertion order.
on_delete_cascade_seq(children, fk, id) ==
    SelectSeq(children, LAMBDA c : c[fk] # id)

\* A column without the foreign key: every INSERT is accepted.
fk_unchecked(parents, id) == TRUE

\* The foreign key constraint on INSERT: the referenced row exists.
fk_accepts(parents, id) == \E p \in parents : p.id = id

\* create_deal: a Property with status="active".
CreateDeal ==
    /\ nextRow <= MaxDeals
    /\ properties' = properties \cup {[id |-> nextRow, status |-> "active"]}
    /\ nextRow' = nextRow + 1
    /\ UNCHANGED <<requestVars, lead_notes, call_sessions, deal_matches,
                   property_features, property_documents, view>>

\* features_data dicts, as sets of (key, value) pairs: none, an empty dict, one
\* with the required asset_type, one without it.
FeatureInputs ==
    {None, Some({}), Some({<<"asset_type", "industrial">>}),
     Some({<<"year_built", "1990">>})}

\* The Python truth of an Optional[dict]: present and not empty.
TruthyDict(o) == IsSome(o) /\ Get(o) # {}

\* d.get(key)
dict_get(d, key) ==
    IF \E kv \in d : kv[1] = key
    THEN Some((CHOOSE kv \in d : kv[1] = key)[2]) ELSE None

\* property_features.property_id without its unique constraint.
unique_not_enforced(rows, property_id) == TRUE

\* property_features.property_id is unique=True: the INSERT is rejected when
\* the property already has a row.
unique_accepts(rows, property_id) == \A f \in rows : f.property_id # property_id

\* The INSERT of a PropertyFeature row: asset_type is NOT NULL, property_id is
\* a foreign key to properties and unique.
feature_insert_accepted(row, deals, rows) ==
    /\ IsSome(row.asset_type)
    /\ fk_accepts(deals, row.property_id)
    /\ unique_accepts(rows, row.property_id)

\* The stored PropertyFeature row.
feature_row(row) == [property_id |-> row.property_id, asset_type |-> Get(row.asset_type)]

\* PropertyRepository.create_with_features with property_data that leaves the
\* status to the column default, run in a session of its own: the Property is
\* flushed, then, if features_data, the PropertyFeature; an exception of the
\* second flush rolls the session back, else it commits.
create_with_features(features_data) ==
    LET property_obj == [id |-> nextRow, status |-> "active"]
        flushed == properties \cup {property_obj}
        features == [property_id |-> property_obj.id,
                     asset_type |-> dict_get(Get(features_data), "asset_type")]
    IN IF ~TruthyDict(features_data)
       THEN [raised |-> FALSE, properties |-> flushed,
             property_features |-> property_features]
       ELSE IF feature_insert_accepted(features, flushed, property_features)
       THEN [raised |-> FALSE, properties |-> flushed,
             property_features |-> property_features \cup {feature_row(features)}]
       ELSE [raised |-> TRUE, properties |-> properties,
             property_features |-> property_features]

CreateWithFeatures(features_data) ==
    LET done == create_with_features(features_data)
    IN /\ nextRow <= MaxDeals
       /\ TruthyDict(features_data) => ChildCount < MaxChildren
       /\ properties' = done.properties
       /\ property_features' = done.property_features
       /\ nextRow' = nextRow + 1
       /\ UNCHANGED <<requestVars, lead_notes, call_sessions, deal_matches,
                      property_documents, view>>

\* update_deal: 404 for an unknown id, else the status is assigned when given.
UpdateDeal(deal_id, status) ==
    /\ properties' =
           {IF p.id = deal_id /\ IsSome(status)
            THEN [p EXCEPT !.status = Get(status)] ELSE p : p \in properties}
    /\ UNCHANGED <<requestVars, lead_notes, call_sessions, deal_matches,
                   property_features, property_documents, nextRow, view>>

\* PropertyRepository.update_status: None for an unknown id, else the status
\* is assigned.
UpdateStatus(id, status) ==
    /\ properties' =
           {IF p.id = id THEN [p EXCEPT !.status = status] ELSE p : p \in properties}
    /\ UNCHANGED <<requestVars, lead_notes, call_sessions, deal_matches,
                   property_features, property_documents, nextRow, view>>

\* BaseRepository.delete on PropertyRepository: DELETE FROM properties WHERE id.
DeleteProperty(id) ==
    /\ properties' = {p \in properties : p.id # id}
    /\ property_features' = on_delete_cascade(property_features, "property_id", id)
    /\ property_documents' = on_delete_cascade(property_documents, "property_id", id)
    /\ deal_matches' = on_delete_cascade(deal_matches, "property_id", id)
    /\ UNCHANGED <<requestVars, lead_notes, call_sessions, nextRow, view>>

\* BaseRepository.delete on InvestorRepository: DELETE FROM investor_profiles
\* WHERE id.
DeleteLead(id) ==
    /\ leads' = {l \in leads : l.id # id}
    /\ consents' = on_delete_cascade_seq(consents, "investor_id", id)
    /\ stage_history' = on_delete_cascade_seq(stage_history, "investor_id", id)
    /\ lead_notes' = on_delete_cascade(lead_notes, "investor_id", id)
    /\ call_sessions' = on_delete_cascade(call_sessions, "investor_id", id)
    /\ deal_matches' = on_delete_cascade(deal_matches, "investor_id", id)
    /\ UNCHANGED <<pc, local, tx, resp, nextId, issued, intakeLog, okUpdates,
                   properties, property_features, property_documents, nextRow, view>>

\* InvestorRepository.add_note: None for an unknown lead, else a LeadNote row.
AddNote(investor_id) ==
    /\ ChildCount < MaxChildren
    /\ lead_notes' =
           IF IsSome(get(investor_id).value)
           THEN lead_notes \cup {[investor_id |-> investor_id]}
           ELSE lead_notes
    /\ UNCHANGED <<requestVars, call_sessions, deal_matches, properties,
                   property_features, property_documents, nextRow, view>>

\* An INSERT into call_sessions, subject to its foreign key.
InsertCallSession(investor_id) ==
    /\ ChildCount < MaxChildren
    /\ call_sessions' =
           IF fk_accepts(leads, investor_id)
           THEN call_sessions \cup {[investor_id |-> investor_id]}
           ELSE call_sessions
    /\ UNCHANGED <<requestVars, lead_notes, deal_matches, properties,
                   property_features, property_documents, nextRow, view>>

\* An INSERT into deal_matches, subject to its two foreign keys.
InsertDealMatch(investor_id, property_id) ==
    /\ ChildCount < MaxChildren
    /\ deal_matches' =
           IF fk_accepts(leads, investor_id) /\ fk_accepts(properties, property_id)
           THEN deal_matches \cup
                    {[investor_id |-> investor_id, property_id |-> property_id]}
           ELSE deal_matches
    /\ UNCHANGED <<requestVars, lead_notes, call_sessions, properties,
                   property_features, property_documents, nextRow, view>>

\* An INSERT into property_documents, subject to its foreign key.
InsertPropertyDocument(property_id) ==
    /\ ChildCount < MaxChildren
    /\ property_documents' =
           IF fk_accepts(properties, property_id)
           THEN property_documents \cup {[property_id |-> property_id]}
           ELSE property_documents
    /\ UNCHANGED <<requestVars, lead_notes, call_sessions, deal_matches,
                   properties, property_features, nextRow, view>>

NextDeals ==
    \/ CreateDeal
    \/ \E features_data \in FeatureInputs : CreateWithFeatures(features_data)
    \/ \E id \in DealIds, status \in StatusInputs : UpdateDeal(id, status)
    \/ \E id \in DealIds, status \in StatusArguments : UpdateStatus(id, status)
    \/ \E id \in DealIds : DeleteProperty(id)
    \/ \E id \in LeadIds : DeleteLead(id)
    \/ \E id \in LeadIds : AddNote(id)
    \/ \E id \in LeadIds : InsertCallSession(id)
    \/ \E id \in LeadIds, p \in DealIds : InsertDealMatch(id, p)
    \/ \E p \in DealIds : InsertPropertyDocument(p)

SpecDeals == InitDeals /\ [][NextDeals]_vars

\* C16 (SpecDeals): every CallSession, DealMatch, LeadNote, StageHistory and
\* Consent row references an existing lead, and every PropertyFeature,
\* PropertyDocument and DealMatch row an existing Property, in every reachable
\* state, so none is left behind when its lead or Property is deleted.
C16_NoOrphans ==
    LET leadIds == {l.id : l \in leads}
        dealIds == {p.id : p \in properties}
    IN /\ \A c \in call_sessions \cup lead_notes : c.investor_id \in leadIds
       /\ \A i \in 1..Len(consents) : consents[i].investor_id \in leadIds
       /\ \A i \in 1..Len(stage_history) : stage_history[i].investor_id \in leadIds
       /\ \A f \in property_features \cup property_documents : f.property_id \in dealIds
       /\ \A dm \in deal_matches :
              dm.investor_id \in leadIds /\ dm.property_id \in dealIds

C16_Witness ==
    /\ \E i \in 1..(nextId - 1) : \A l \in leads : l.id # i
    /\ \E p \in 1..(nextRow - 1) : \A q \in properties : q.id # p
    /\ leads # {} /\ properties # {}
    /\ lead_notes # {} /\ property_documents # {}
    /\ Len(consents) = Cardinality(leads)

\* C19 (SpecDeals): the status of every Property is active, closed or paused in
\* every reachable state, after any sequence of deal creations, deal updates
\* and status updates.
C19_StatusInEnum ==
    \A p \in properties : p.status \in {"active", "closed", "paused"}

\* C18 (Spec): a stage update becomes visible in one step. Whenever the
\* committed stage of a lead changes, the StageHistory row of that change is
\* committed in the same step; whenever a stage-update row is committed, the
\* lead has its to_stage in the same step (unless the update read the lead
\* already in that stage and so wrote none); and a stage update that fails
\* leaves leads and stage_history as they were.
C18_StageUpdateAtomic ==
    [][/\ \A i \in LeadIds :
             \A l \in leads, m \in leads' :
                 (l.id = i /\ m.id = i /\ l.stage # m.stage) =>
                     /\ Len(stage_history') = Len(stage_history) + 1
                     /\ stage_history'[Len(stage_history')].investor_id = i
                     /\ stage_history'[Len(stage_history')].to_stage = m.stage
       /\ (/\ Len(stage_history') > Len(stage_history)
           /\ stage_history'[Len(stage_history')].from_stage # None) =>
              LET row == stage_history'[Len(stage_history')]
              IN \E m \in leads' :
                     /\ m.id = row.investor_id
                     /\ m.stage = row.to_stage \/ row.from_stage = Some(row.to_stage)
       /\ \A r \in Req :
              (/\ pc[r] \in {"write_stage", "commit"}
               /\ local[r].op = "update_stage"
               /\ pc'[r] = "idle"
               /\ resp'.status # 200) =>
                  leads' = leads /\ stage_history' = stage_history]_vars

C18_Witness ==
    \E l \in leads, r \in Req :
        /\ l.stage = "call_dispatched"
        /\ okUpdates[l.id] = 1
        /\ pc[r] = "commit"
        /\ local[r].op = "update_stage"
        /\ local[r].investor_id = l.id
        /\ local[r].new_stage = "closed"

\* ------------------------------- InvestorRepository.update_stage, called directly
\* The arguments of update_stage: new_stage is any str.
RepoStageCalls ==
    [new_stage : VALID_STAGES \cup {"archived", ""}, changed_by : {"admin"},
     notes : {None}]
        \cup {[new_stage |-> "archived", changed_by |-> "voice_agent",
               notes |-> Some("follow up")]}

\* update_stage up to the read of the lead: get(investor_id) and the None
\* returned for an unknown id. The caller's session commits when it returns.
RepoUpdateStage(r, investor_id, call) ==
    LET investor == get(investor_id)
    IN /\ pc[r] = "idle"
       /\ UNCHANGED adminVars
       /\ issued < MaxRequests
       /\ issued' = issued + 1
       /\ UNCHANGED <<nextId, intakeLog, okUpdates>>
       /\ IF ~IsSome(investor.value)
          THEN EndRequest(r, commit(tx[r]), Response(0, "None", None))
          ELSE /\ pc' = [pc EXCEPT ![r] = "write_stage"]
               /\ local' = [local EXCEPT ![r] =
                      [op |-> "update_stage", investor_id |-> investor_id,
                       old_stage |-> Get(investor.value).stage,
                       new_stage |-> call.new_stage, changed_by |-> call.changed_by,
                       notes |-> call.notes]]
               /\ UNCHANGED <<leads, consents, stage_history, tx, resp>>

\* Intakes and direct calls of update_stage, one at a time.
NextRepo ==
    \/ \E d \in ConcurrentSubmissions : SubmitLead(1, d)
    \/ \E id \in LeadIds, call \in RepoStageCalls : RepoUpdateStage(1, id, call)
    \/ Steps(1)

SpecRepo == Init /\ [][NextRepo]_vars

\* C20 (SpecRepo): update_stage on an existing lead, once committed, has set
\* that lead's stage to newStage and appended exactly one StageHistory row with
\* from_stage the stage before the call, to_stage newStage and the given
\* changed_by and notes; every other lead, every consent, note and earlier
\* history row is unchanged; newStage may be any string.
C20_UpdateStageEffect ==
    [][(/\ pc[1] = "commit"
        /\ local[1].op = "update_stage"
        /\ pc'[1] = "idle") =>
           LET id == local[1].investor_id
               previous == (CHOOSE l \in leads : l.id = id).stage
           IN /\ leads' = {IF l.id = id THEN [l EXCEPT !.stage = local[1].new_stage]
                           ELSE l : l \in leads}
              /\ stage_history' =
                     Append(stage_history,
                            [investor_id |-> id, from_stage |-> Some(previous),
                             to_stage |-> local[1].new_stage,
                             changed_by |-> local[1].changed_by,
                             notes |-> local[1].notes])
              /\ consents' = consents
              /\ lead_notes' = lead_notes]_vars

C20_Witness ==
    /\ Cardinality(leads) = 2
    /\ \E l \in leads :
           /\ l.stage = "archived"
           /\ stage_history[Len(stage_history)] =
                  [investor_id |-> l.id, from_stage |-> Some("new_lead"),
                   to_stage |-> "archived", changed_by |-> "voice_agent",
                   notes |-> Some("follow up")]
    /\ \E l \in leads : l.stage = "new_lead"


\* ------------------------------- writes that name a lead, known or unknown
\* add_lead_note: repo.add_note returns None for an unknown lead and the
\* handler raises 404; else the LeadNote row is flushed and committed.
AddLeadNote(r, lead_id) ==
    /\ pc[r] = "idle"
    /\ issued < MaxRequests
    /\ issued' = issued + 1
    /\ UNCHANGED <<nextId, intakeLog, okUpdates>>
    /\ IF ~IsSome(get(lead_id).value)
       THEN /\ EndRequest(r, rollback(tx[r]), Response(404, "Lead not found", None))
            /\ UNCHANGED adminVars
       ELSE /\ EndRequest(r, commit(tx[r]), Response(200, "OK", Some(lead_id)))
            /\ lead_notes' = lead_notes \cup {[investor_id |-> lead_id]}
            /\ UNCHANGED <<call_sessions, deal_matches, properties,
                           property_features, property_documents, nextRow, view>>

\* The Consent row add_consent builds.
consent_row(investor_id, consent_text) ==
    [investor_id |-> investor_id, consent_text |-> consent_text]

\* add_consent called directly: the row is added to the session without a
\* lookup of the lead; flush sends the INSERT, which the foreign key on
\* investor_id rejects for an unknown lead (IntegrityError); the caller's
\* session is then rolled back, else committed.
RepoAddConsent(r, investor_id) ==
    LET pending == [tx[r] EXCEPT !.ins_consents =
                        Append(@, consent_row(investor_id, "consent"))]
    IN /\ pc[r] = "idle"
       /\ UNCHANGED adminVars
       /\ issued < MaxRequests
       /\ issued' = issued + 1
       /\ UNCHANGED <<nextId, intakeLog, okUpdates>>
       /\ IF fk_accepts(leads, investor_id)
          THEN EndRequest(r, commit(pending), Response(0, "Consent", None))
          ELSE EndRequest(r, rollback(pending), Response(500, "IntegrityError", None))

\* Intakes, stage updates through the API and the repository, notes and
\* direct add_consent calls, one at a time.
NextWrites ==
    \/ \E d \in ConcurrentSubmissions : SubmitLead(1, d)
    \/ \E id \in LeadIds, sd \in ConcurrentStageRequests : UpdateLeadStage(1, id, sd)
    \/ \E id \in LeadIds, call \in RepoStageCalls : RepoUpdateStage(1, id, call)
    \/ \E id \in LeadIds : AddLeadNote(1, id)
    \/ \E id \in LeadIds : RepoAddConsent(1, id)
    \/ Steps(1)

SpecWrites == Init /\ [][NextWrites]_vars

UnknownLead(id) == \A l \in leads : l.id # id

\* C21 (SpecWrites): for an id no lead has, update_stage returns None and the
\* stage update and add-note endpoints answer 404, each without inserting a
\* StageHistory or LeadNote row or changing a lead; add_consent with such an
\* id does not look the lead up and fails with the foreign key violation,
\* and no Consent row is left after the rollback.
C21_UnknownLead ==
    [][\A id \in LeadIds :
         (pc[1] = "idle" /\ UnknownLead(id)) =>
           /\ (\E call \in RepoStageCalls : RepoUpdateStage(1, id, call)) =>
                  /\ resp' = Response(0, "None", None)
                  /\ CommittedUnchanged
                  /\ lead_notes' = lead_notes
           /\ (\E sd \in ConcurrentStageRequests :
                   is_valid_stage(sd.stage) /\ UpdateLeadStage(1, id, sd)) =>
                  /\ resp' = Response(404, "Lead not found", None)
                  /\ CommittedUnchanged
                  /\ lead_notes' = lead_notes
           /\ AddLeadNote(1, id) =>
                  /\ resp' = Response(404, "Lead not found", None)
                  /\ CommittedUnchanged
                  /\ lead_notes' = lead_notes
           /\ RepoAddConsent(1, id) =>
                  /\ resp' = Response(500, "IntegrityError", None)
                  /\ CommittedUnchanged
                  /\ lead_notes' = lead_notes]_vars

C21_Witness ==
    /\ resp = Response(500, "IntegrityError", None)
    /\ Cardinality(leads) = 1
    /\ Len(consents) = 1
    /\ lead_notes # {}


\* ------------------------------------------------- the filters of a search
\* The predicates a search supplies: a stage or search string that is present
\* and not empty, a bound or date that is present.
FilterNames ==
    {"stage", "score_min", "score_max", "capital_min", "capital_max",
     "date_from", "date_to", "search"}

Supplied(f) ==
    {p \in FilterNames :
        IF p \in {"stage", "search"} THEN Truthy(f[p]) ELSE IsSome(f[p])}

\* Lead l satisfies predicate p of filter f (all bounds inclusive).
Holds(l, f, p) ==
    CASE p = "stage" -> l.stage = Get(f.stage)
      [] p = "score_min" -> l.lead_score >= Get(f.score_min)
      [] p = "score_max" -> l.lead_score <= Get(f.score_max)
      [] p = "capital_min" ->
             IsSome(l.capital_available)
                 /\ Get(l.capital_available) >= Get(f.capital_min)
      [] p = "capital_max" ->
             IsSome(l.capital_available)
                 /\ Get(l.capital_available) <= Get(f.capital_max)
      [] p = "date_from" -> created_at(l) >= Get(f.date_from)
      [] p = "date_to" -> created_at(l) <= Get(f.date_to)
      [] p = "search" -> contains(l.phone, Get(f.search))

\* The ids of the leads on the page of the last list response.
PageIds == {view.leads[i].id : i \in 1..Len(view.leads)}

sort_column_keys == {"created_at", "lead_score", "capital_available"}

\* A date parameter that is given and does not parse.
Unparsable(date_str) ==
    Truthy(date_str) /\ fromisoformat(replace(Get(date_str), "Z", "+00:00")).raised

\* The page of the last list response is one that ORDER BY, OFFSET skip,
\* LIMIT limit can return over the rows: it has the length left after skip,
\* its rows are distinct rows in order, no other row sorts strictly between
\* its first and last row, and skip of the other rows can come before it
\* while all the others come after it.
IsPageOf(rows, sort_by, sort_order, skip, limit) ==
    LET n == Len(view.leads)
        row(i) == RowOf(view.leads[i].id)
        before(x, y) == Precedes(x, y, sort_by, sort_order)
        rest == rows \ {row(i) : i \in 1..n}
        left == Cardinality(rows) - skip
    IN /\ n = IF left <= 0 THEN 0 ELSE IF left < limit THEN left ELSE limit
       /\ \A i \in 1..n : row(i) \in rows
       /\ \A i, j \in 1..n : i < j => row(i) # row(j) /\ ~before(row(j), row(i))
       /\ n > 0 =>
              /\ \A x \in rest : ~before(row(1), x) \/ ~before(x, row(n))
              /\ Cardinality({x \in rest : before(x, row(n))}) <= skip
              /\ skip <= Cardinality({x \in rest : ~before(row(1), x)})

\* The last list response is a response of the same request made with query q
\* and sort key sort_by instead: the same total, and a page of that request.
SameResultAs(q, sort_by) ==
    LET matching == {l \in leads : Matches(l, search_arguments(q))}
    IN /\ view.total = Cardinality(matching)
       /\ IsPageOf(matching, sort_by, view.sort_order,
                   (view.page - 1) * view.pageSize, view.pageSize)

\* C23 (SpecAdmin): a list request whose sort key is none of created_at,
\* lead_score, capital_available returns the page and total of the same
\* request sorted by created_at; a dateFrom or dateTo string that does not
\* parse gives the result of the request without that parameter. Neither is
\* rejected.
C23_Fallbacks ==
    view.op = "list_leads" =>
        /\ view.sort_by \notin sort_column_keys =>
               SameResultAs(view.query, "created_at")
        /\ Unparsable(view.query.date_from) =>
               SameResultAs([view.query EXCEPT !.date_from = None], view.sort_by)
        /\ Unparsable(view.query.date_to) =>
               SameResultAs([view.query EXCEPT !.date_to = None], view.sort_by)

C23_Witness ==
    /\ view.op = "list_leads"
    /\ view.sort_by = "name"
    /\ view.query.date_to = Some("soon")
    /\ view.total = 2
    /\ Len(view.leads) = 2
    /\ view.leads[1].id < view.leads[2].id
    /\ \E l \in leads : l.id > view.leads[2].id /\ ~IsSome(l.capital_available)


\* ------------------------------------------- edge values of the filters
\* The leads that have a capital_available.
WithCapital == {l \in leads : IsSome(l.capital_available)}

\* Every lead of the page is one of kept, and no more leads are counted than
\* kept holds.
OnlyLeadsIn(kept) ==
    /\ \A id \in PageIds : RowOf(id) \in kept
    /\ view.total <= Cardinality(kept)

\* C30 (SpecAdmin): a lead whose capital_available is null is neither listed
\* nor counted when capitalMin or capitalMax is supplied; a score or capital
\* bound of 0 is applied as a bound; an empty stage or search string gives the
\* result of the request without that parameter.
C30_FilterEdges ==
    view.op = "list_leads" =>
        LET q == view.query
        IN /\ (IsSome(q.capital_min) \/ IsSome(q.capital_max)) =>
                  OnlyLeadsIn(WithCapital)
           /\ q.score_min = Some(0) => OnlyLeadsIn({l \in leads : l.lead_score >= 0})
           /\ q.score_max = Some(0) => OnlyLeadsIn({l \in leads : l.lead_score <= 0})
           /\ q.capital_min = Some(0) =>
                  OnlyLeadsIn({l \in WithCapital : Get(l.capital_available) >= 0})
           /\ q.capital_max = Some(0) =>
                  OnlyLeadsIn({l \in WithCapital : Get(l.capital_available) <= 0})
           /\ q.stage = Some("") =>
                  SameResultAs([q EXCEPT !.stage = None], view.sort_by)
           /\ q.search = Some("") =>
                  SameResultAs([q EXCEPT !.search = None], view.sort_by)

C30_Witness ==
    /\ view.op = "list_leads"
    /\ view.query.capital_min = Some(0)
    /\ leads \ WithCapital # {}
    /\ view.total = Cardinality(WithCapital)
    /\ view.total = 1
    /\ Len(view.leads) = 1


\* ------------------------------------------------------- counts per stage
\* The sum of the values of a dict of counts.
RECURSIVE sum_counts(_)
sum_counts(by_stage) ==
    IF DOMAIN by_stage = {} THEN 0
    ELSE LET st == CHOOSE x \in DOMAIN by_stage : TRUE
         IN by_stage[st]
                + sum_counts([x \in DOMAIN by_stage \ {st} |-> by_stage[x]])

\* C24 (SpecStats): the per-stage counts have exactly one entry for each stage
\* that at least one lead is in, its count the number of leads in that stage;
\* a stage no lead is in has no entry (not a 0), and the counts add up to the
\* number of leads.
C24_StatsByStage ==
    view.op = "get_stats" =>
        /\ DOMAIN view.byStage = {l.stage : l \in leads}
        /\ \A st \in DOMAIN view.byStage :
               /\ view.byStage[st] = Cardinality({l \in leads : l.stage = st})
               /\ view.byStage[st] >= 1
        /\ \A st \in VALID_STAGES :
               (\A l \in leads : l.stage # st) => st \notin DOMAIN view.byStage
        /\ sum_counts(view.byStage) = Cardinality(leads)

C24_Witness ==
    /\ view.op = "get_stats"
    /\ DOMAIN view.byStage = {"new_lead", "under_review"}
    /\ view.byStage["new_lead"] = 3
    /\ view.byStage["under_review"] = 2
    /\ view.totalLeads = 5


\* --------------------------------- PropertyRepository.create_with_features
\* A call of create_with_features and what it returned or raised.
CreateWithFeaturesCall(features_data) ==
    LET done == create_with_features(features_data)
    IN /\ view = NoView
       /\ nextRow <= MaxDeals
       /\ properties' = done.properties
       /\ property_features' = done.property_features
       /\ nextRow' = nextRow + 1
       /\ view' = [op |-> "create_with_features", features_data |-> features_data,
                   id |-> nextRow, raised |-> done.raised]
       /\ UNCHANGED <<requestVars, lead_notes, call_sessions, deal_matches,
                      property_documents>>

\* An INSERT into property_features for a deal, subject to NOT NULL, the
\* foreign key and the unique constraint.
InsertPropertyFeature(property_id, asset_type) ==
    LET row == [property_id |-> property_id, asset_type |-> Some(asset_type)]
    IN /\ view = NoView
       /\ property_features' =
              IF feature_insert_accepted(row, properties, property_features)
              THEN property_features \cup {feature_row(row)}
              ELSE property_features
       /\ view' = [op |-> "insert_property_feature", property_id |-> property_id,
                   raised |-> property_features' = property_features]
       /\ UNCHANGED <<requestVars, lead_notes, call_sessions, deal_matches,
                      properties, property_documents, nextRow>>

\* Deals created with and without features, features inserted for existing
\* deals, status updates and deletions.
NextFeatures ==
    \/ \E features_data \in FeatureInputs : CreateWithFeaturesCall(features_data)
    \/ \E id \in DealIds : InsertPropertyFeature(id, "office")
    \/ \E id \in DealIds, status \in StatusInputs : view = NoView /\ UpdateDeal(id, status)
    \/ \E id \in DealIds : view = NoView /\ DeleteProperty(id)
    \/ Respond

SpecFeatures == InitDeals /\ [][NextFeatures]_vars

\* The PropertyFeature rows of deal id.
FeaturesOf(id) == {f \in property_features : f.property_id = id}

\* C25 (SpecFeatures): create_with_features inserts one Property and, only
\* when features_data is supplied, one PropertyFeature that references the new
\* Property, both in one transaction: when the feature insert fails neither
\* row is persisted. In every reachable state a Property has at most one
\* PropertyFeature.
C25_FeaturesAtomicUnique ==
    /\ [](\A p \in properties : Cardinality(FeaturesOf(p.id)) <= 1)
    /\ [][(view = NoView /\ view'.op = "create_with_features") =>
            LET new_deals == properties' \ properties
                new_features == property_features' \ property_features
            IN /\ properties \subseteq properties'
               /\ property_features \subseteq property_features'
               /\ new_features # {} =>
                      /\ IsSome(view'.features_data)
                      /\ Cardinality(new_features) = 1
                      /\ \A f \in new_features :
                             new_deals = {[id |-> f.property_id, status |-> "active"]}
               /\ view'.raised => new_deals = {} /\ new_features = {}
               /\ ~view'.raised =>
                      /\ new_deals = {[id |-> view'.id, status |-> "active"]}
                      /\ view'.features_data \in {None, Some({})} => new_features = {}
                      /\ (/\ IsSome(view'.features_data)
                          /\ IsSome(dict_get(Get(view'.features_data), "asset_type"))) =>
                             new_features # {}]_vars

C25_Witness ==
    /\ view.op = "create_with_features"
    /\ view.raised
    /\ view.id = 2
    /\ properties = {[id |-> 1, status |-> "active"]}
    /\ property_features = {[property_id |-> 1, asset_type |-> "industrial"]}


\* ------------------------------------------------ the lead an intake creates
\* The columns the qualification of the payload is copied to.
QualificationColumns ==
    {"investor_type", "capacity", "fit", "process", "timing",
     "qualification_bucket", "qualification_score"}

\* The payload of the intake that is about to commit lead id.
PayloadOf(id) ==
    local[CHOOSE r \in Req : /\ pc[r] = "commit"
                             /\ local[r].op = "submit_lead"
                             /\ local[r].investor_id = id].lead_data

\* C26 (SpecSeq): a lead created by the intake is stored with stage new_lead
\* and source web; its lead_score is the submitted qualification score, or 0
\* when no qualification was submitted; investor_type, capacity, fit, process,
\* timing, qualification_bucket and qualification_score are all set (to the
\* submitted values) or all unset, at creation and in every later state.
C26_CreatedLead ==
    /\ [](\A l \in leads :
            /\ l.source = "web"
            /\ \/ \A c \in QualificationColumns : IsSome(l[c])
               \/ \A c \in QualificationColumns : ~IsSome(l[c])
            /\ l.lead_score =
                   IF IsSome(l.qualification_score) THEN Get(l.qualification_score)
                   ELSE 0)
    /\ [][\A l \in {n \in leads' : \A k \in leads : k.id # n.id} :
            LET q == PayloadOf(l.id).qualification
            IN /\ l.stage = "new_lead"
               /\ l.source = "web"
               /\ l.lead_score = IF IsSome(q) THEN Get(q).score ELSE 0
               /\ \A c \in QualificationColumns : IsSome(l[c]) <=> IsSome(q)
               /\ IsSome(q) =>
                      /\ l.investor_type = Some(Get(q).investorType)
                      /\ l.capacity = Some(Get(q).capacity)
                      /\ l.fit = Some(Get(q).fit)
                      /\ l.process = Some(Get(q).process)
                      /\ l.timing = Some(Get(q).timing)
                      /\ l.qualification_bucket = Some(Get(q).bucket)
                      /\ l.qualification_score = Some(Get(q).score)]_vars

C26_Witness ==
    /\ \E l \in leads :
           /\ l.stage = "new_lead"
           /\ l.lead_score = QualB.score
           /\ l.qualification_bucket = Some("not_qualified")
    /\ \E l \in leads :
           /\ l.lead_score = 0
           /\ \A c \in QualificationColumns : ~IsSome(l[c])
           /\ l.stage # "new_lead"


C28_StageMatchesHistory ==
    \A l \in leads :
        LET rows == HistoryOf(l.id)
        IN /\ Len(rows) >= 1
           /\ l.stage = rows[Len(rows)].to_stage

C28_Witness ==
    \E l \in leads :
        LET rows == HistoryOf(l.id)
        IN /\ Len(rows) = 3
           /\ pc[1] = "idle"
           /\ rows[2].to_stage = "closed"
           /\ rows[3].from_stage = Some("closed")
           /\ rows[3].to_stage = "under_review"
           /\ l.stage = "under_review"


====
